---- MODULE Spec2Model ----
(***************************************************************************)
(* Model of scanner/walk_dir_tree.go: the recursive directory walker that  *)
(* sends one dirStats record per included directory on a channel, children *)
(* before parents, and closes the channel when the walk ends.              *)
(*                                                                         *)
(* A file name is a sequence of tokens (<<".", "d2">>, <<"s", ".", "mp3">>)*)
(* and a path is a sequence of names.  The file system is a table of       *)
(* directory nodes; node 1 is the root folder of the walk.                 *)
(***************************************************************************)
EXTENDS Integers, Sequences, FiniteSets, TLC

\* ------------------------------------------------------------------ bounds
\* number of directory nodes of a tree-shaped file system
MaxDirs == 3
\* largest capacity of the results channel handed to walkDirTree
MaxCap == 1
\* modification times range over 1..MaxTime
MaxTime == 2
\* largest number of entries of the root listing in the flat file systems
MaxEntries == 2

\* ------------------------------------------------------- program constants
Dot == "."

\* consts.SkipScanFile, the ignore-marker file name
SkipScanFile == <<Dot, "ndignore">>

Nil == [kind |-> "nil", path |-> <<>>]

\* the zero value of dirStats
ZeroStats ==
  [Path |-> <<>>, ModTime |-> 0, HasImages |-> FALSE, HasPlaylist |-> FALSE,
   AudioFilesCount |-> 0]

\* what a receive from the results channel gives the consumer: the record v
\* and ok = true
Received(v) == [value |-> v, ok |-> TRUE]

\* what a receive from the closed and drained channel gives: the zero value
\* and ok = false (also the zero value of the consumer's two variables)
Closed == [value |-> ZeroStats, ok |-> FALSE]

\* -------------------------------------------------------------------- state
VARIABLES
  fs,          \* the file system: node -> [mtime, statErr, listErr, readable, entries]
  rootFolder,  \* the rootFolder argument of walkDirTree
  chanCap,     \* capacity of the results channel
  stack,       \* the walkFolder frames, innermost last
  wpc,         \* where walkDirTree is: "walk", "close", "return", "done"
  err,         \* the error walkFolder returned to walkDirTree
  returned,    \* what walkDirTree returned (Nil until it returns)
  results,     \* the channel: [buf, closed]
  closeCount,  \* how many times close(results) ran
  sent,        \* every record sent, in order
  received,    \* every record the consumer received, in order
  consumer,    \* "receiving", or "done" once it saw the channel closed
  observed,    \* what the consumer's latest receive gave it: [value, ok]
  ctxDone,     \* the context was cancelled
  trace        \* every file-system call, send and close of the walker, in order

vars ==
  <<fs, rootFolder, chanCap, stack, wpc, err, returned, results, closeCount,
    sent, received, consumer, observed, ctxDone, trace>>

\* ------------------------------------------------------------ names, paths
\* strings.HasPrefix(name, ".")
HasDotPrefix(name) == Len(name) > 0 /\ name[1] = Dot

\* filepath.Ext: the suffix that starts at the last dot of the name
Ext(name) ==
  LET dots == {i \in 1..Len(name) : name[i] = Dot}
  IN  IF dots = {} THEN <<>>
      ELSE LET last == CHOOSE i \in dots : \A j \in dots : j <= i
           IN  SubSeq(name, last, Len(name))

IsAudioFile(name) == Ext(name) \in {<<Dot, "mp3">>, <<Dot, "flac">>}

IsPlaylist(name) == Ext(name) = <<Dot, "m3u">>

IsImageFile(name) == Ext(name) \in {<<Dot, "jpg">>, <<Dot, "png">>}

\* filepath.Clean on a path without dot-dot: empty components are dropped
Clean(path) == SelectSeq(path, LAMBDA c : c # <<>>)

\* filepath.Join: joins and cleans
Join(dir, name) == Clean(Append(dir, name))

\* p is a proper ancestor of q
IsProperAncestor(p, q) == Len(p) < Len(q) /\ SubSeq(q, 1, Len(p)) = p

\* -------------------------------------------------------------- file system
NoEntry == [name |-> <<>>, isDir |-> FALSE, link |-> "missing", node |-> 0, mtime |-> 0]

\* the entry called name in directory node n, NoEntry when there is none
Lookup(n, name) ==
  LET es == fs[n].entries
      at == {i \in 1..Len(es) : es[i].name = name}
  IN  IF at = {} THEN NoEntry ELSE es[CHOOSE i \in at : TRUE]

\* what a path resolves to, following symbolic links:
\* [kind: "dir" | "file" | "none", node]
RECURSIVE ResolveFrom(_, _, _)
ResolveFrom(n, path, k) ==
  IF k > Len(path) THEN [kind |-> "dir", node |-> n]
  ELSE LET e == Lookup(n, path[k])
       IN  IF e.isDir \/ e.link = "dir" THEN ResolveFrom(e.node, path, k + 1)
           ELSE IF e.link \in {"none", "file"} /\ k = Len(path)
                THEN [kind |-> "file", node |-> 0]
                ELSE [kind |-> "none", node |-> 0]

Resolve(path) ==
  LET p == Clean(path)
  IN  IF p = <<>> \/ p[1] # Clean(rootFolder)[1]
      THEN [kind |-> "none", node |-> 0]
      ELSE ResolveFrom(1, p, 2)

\* os.Stat(path): [ok, isDir, modTime]
Stat(path) ==
  LET r == Resolve(path)
  IN  IF r.kind = "none" THEN [ok |-> FALSE, isDir |-> FALSE, modTime |-> 0]
      ELSE IF r.kind = "file" THEN [ok |-> TRUE, isDir |-> FALSE, modTime |-> 0]
      ELSE IF fs[r.node].statErr THEN [ok |-> FALSE, isDir |-> FALSE, modTime |-> 0]
      ELSE [ok |-> TRUE, isDir |-> TRUE, modTime |-> fs[r.node].mtime]

\* ioutil.ReadDir(path): [ok, files]
ReadDir(path) ==
  LET r == Resolve(path)
  IN  IF r.kind # "dir" \/ fs[r.node].listErr THEN [ok |-> FALSE, files |-> <<>>]
      ELSE [ok |-> TRUE, files |-> fs[r.node].entries]

\* utils.IsDirReadable(path)
IsDirReadable(path) ==
  LET r == Resolve(path)
  IN  r.kind = "dir" /\ fs[r.node].readable

Op(name, path) == [op |-> name, path |-> path]

\* ------------------------------------------------------------------ loadDir
\* isDirOrSymlinkToDir(baseDir, dirInfo): [isDir, failed, ops]
isDirOrSymlinkToDir(baseDir, f) ==
  IF f.isDir THEN [isDir |-> TRUE, failed |-> FALSE, ops |-> <<>>]
  ELSE IF f.link = "none" THEN [isDir |-> FALSE, failed |-> FALSE, ops |-> <<>>]
  ELSE LET p  == Join(baseDir, f.name)
           st == Stat(p)
       IN  IF ~st.ok
           THEN [isDir |-> FALSE, failed |-> TRUE, ops |-> <<Op("statLink", p)>>]
           ELSE [isDir |-> st.isDir, failed |-> FALSE, ops |-> <<Op("statLink", p)>>]

\* isDirIgnored without the test of the name: only the marker file counts
isDirIgnoredNoDot(baseDir, f) ==
  LET p == Join(Join(baseDir, f.name), SkipScanFile)
  IN  [res |-> Stat(p).ok, ops |-> <<Op("statMarker", p)>>]

\* isDirIgnored with the test of the marker's stat inverted (err != nil)
isDirIgnoredInverted(baseDir, f) ==
  IF HasDotPrefix(f.name) THEN [res |-> TRUE, ops |-> <<>>]
  ELSE LET p == Join(Join(baseDir, f.name), SkipScanFile)
       IN  [res |-> ~Stat(p).ok, ops |-> <<Op("statMarker", p)>>]

\* isDirIgnored(baseDir, dirInfo): [res, ops]
isDirIgnored(baseDir, f) ==
  IF HasDotPrefix(f.name) THEN [res |-> TRUE, ops |-> <<>>]
  ELSE LET p == Join(Join(baseDir, f.name), SkipScanFile)
       IN  [res |-> Stat(p).ok, ops |-> <<Op("statMarker", p)>>]

\* isDirReadable that ignores the result of the check
isDirReadableAlways(baseDir, f) ==
  [res |-> TRUE, ops |-> <<Op("open", Join(baseDir, f.name))>>]

\* isDirReadable(baseDir, dirInfo): [res, ops]
isDirReadable(baseDir, f) ==
  LET p == Join(baseDir, f.name)
  IN  [res |-> IsDirReadable(p), ops |-> <<Op("open", p)>>]

\* the condition of line 77 with the readability check moved to the front
IsChildReadableFirst(dirPath, f, isDir) ==
  IF ~isDir THEN [res |-> FALSE, ops |-> <<>>]
  ELSE LET rd == isDirReadable(dirPath, f)
       IN  IF ~rd.res THEN [res |-> FALSE, ops |-> rd.ops]
           ELSE LET ig == isDirIgnored(dirPath, f)
                IN  [res |-> ~ig.res, ops |-> rd.ops \o ig.ops]

\* the condition of line 77 without its third operand
IsChildUnchecked(dirPath, f, isDir) ==
  IF ~isDir THEN [res |-> FALSE, ops |-> <<>>]
  ELSE LET ig == isDirIgnored(dirPath, f)
       IN  [res |-> ~ig.res, ops |-> ig.ops]

\* the condition of line 77, evaluated left to right with short circuit:
\* [res, ops]
IsChild(dirPath, f, isDir) ==
  IF ~isDir THEN [res |-> FALSE, ops |-> <<>>]
  ELSE LET ig == isDirIgnored(dirPath, f)
       IN  IF ig.res THEN [res |-> FALSE, ops |-> ig.ops]
           ELSE LET rd == isDirReadable(dirPath, f)
                IN  [res |-> rd.res, ops |-> ig.ops \o rd.ops]

\* the else branch with the modification time overwritten by every entry
AddLeafLastWins(stats, f) ==
  IF IsAudioFile(f.name)
  THEN [stats EXCEPT !.ModTime = f.mtime,
                     !.AudioFilesCount = @ + 1]
  ELSE [stats EXCEPT !.ModTime = f.mtime,
                     !.HasPlaylist = @ \/ IsPlaylist(f.name),
                     !.HasImages = @ \/ IsImageFile(f.name)]

\* the else branch of lines 79-89: the entry is counted into the stats
\* (AudioFilesCount is a uint32; a listing of 2^32 entries is out of reach)
AddLeaf(stats, f) ==
  LET mt == IF f.mtime > stats.ModTime THEN f.mtime ELSE stats.ModTime
  IN  IF IsAudioFile(f.name)
      THEN [stats EXCEPT !.ModTime = mt,
                         !.AudioFilesCount = @ + 1]
      ELSE [stats EXCEPT !.ModTime = mt,
                         !.HasPlaylist = @ \/ IsPlaylist(f.name),
                         !.HasImages = @ \/ IsImageFile(f.name)]

\* one iteration of the loop without the continue of line 75: an entry whose
\* link does not resolve is counted like a file
LoadEntryCountsBroken(dirPath, f, acc) ==
  LET d == isDirOrSymlinkToDir(dirPath, f)
      c == IsChild(dirPath, f, d.isDir)
  IN  IF c.res
      THEN [acc EXCEPT !.children = Append(@, Join(dirPath, f.name)),
                       !.ops = @ \o d.ops \o c.ops]
      ELSE [acc EXCEPT !.stats = AddLeaf(@, f),
                       !.ops = @ \o d.ops \o c.ops]

\* one iteration of the loop of lines 70-90 on entry f
LoadEntry(dirPath, f, acc) ==
  LET d == isDirOrSymlinkToDir(dirPath, f)
  IN  IF d.failed THEN [acc EXCEPT !.ops = @ \o d.ops]
      ELSE LET c == IsChild(dirPath, f, d.isDir)
           IN  IF c.res
               THEN [acc EXCEPT !.children = Append(@, Join(dirPath, f.name)),
                                !.ops = @ \o d.ops \o c.ops]
               ELSE [acc EXCEPT !.stats = AddLeaf(@, f),
                                !.ops = @ \o d.ops \o c.ops]

RECURSIVE LoadEntries(_, _, _, _)
LoadEntries(dirPath, files, k, acc) ==
  IF k > Len(files) THEN acc
  ELSE LoadEntries(dirPath, files, k + 1, LoadEntry(dirPath, files[k], acc))

\* loadDir(ctx, dirPath): [children, stats, err, ops]
loadDir(dirPath) ==
  LET dirInfo == Stat(dirPath)
      o1 == <<Op("stat", dirPath)>>
  IN  IF ~dirInfo.ok
      THEN [children |-> <<>>, stats |-> ZeroStats,
            err |-> [kind |-> "stat", path |-> dirPath], ops |-> o1]
      ELSE LET s0 == [ZeroStats EXCEPT !.ModTime = dirInfo.modTime]
               rd == ReadDir(dirPath)
               o2 == Append(o1, Op("readdir", dirPath))
           IN  IF ~rd.ok
               THEN [children |-> <<>>, stats |-> s0,
                     err |-> [kind |-> "readdir", path |-> dirPath], ops |-> o2]
               ELSE LoadEntries(dirPath, rd.files, 1,
                      [children |-> <<>>, stats |-> s0, err |-> Nil, ops |-> o2])

\* ------------------------------------------------------- walkFolder frames
Frame(folder) ==
  [folder |-> folder, pc |-> "load", children |-> <<>>, i |-> 1,
   stats |-> ZeroStats, ret |-> Nil]

Top == stack[Len(stack)]

Pop == SubSeq(stack, 1, Len(stack) - 1)

SetTop(f) == [stack EXCEPT ![Len(stack)] = f]

\* the loop of line 41 stopping one child early
AfterLoopOffByOne(children, i) == IF i >= Len(children) THEN "send" ELSE "loop"

\* where a frame is after loadDir or after a child returned nil: at the next
\* child of the loop of line 41, or past the loop at the send of line 52
AfterLoop(children, i) == IF i > Len(children) THEN "send" ELSE "loop"

\* the record of line 51-52
Record(f) == [f.stats EXCEPT !.Path = Clean(f.folder)]

Walking == wpc = "walk" /\ stack # <<>>

\* line 37, loadDir succeeded
LoadDirOk ==
  /\ Walking /\ Top.pc = "load"
  /\ LET r == loadDir(Top.folder)
     IN  /\ r.err = Nil
         /\ stack' = SetTop([Top EXCEPT !.children = r.children, !.stats = r.stats,
                                       !.i = 1, !.pc = AfterLoop(r.children, 1)])
         /\ trace' = trace \o r.ops
  /\ UNCHANGED <<fs, rootFolder, chanCap, wpc, err, returned, results, closeCount,
                 sent, received, consumer, ctxDone, observed>>

\* loadDir failed and walkFolder goes on to send the stats it got
LoadDirFailSend ==
  /\ Walking /\ Top.pc = "load"
  /\ LET r == loadDir(Top.folder)
     IN  /\ r.err # Nil
         /\ stack' = SetTop([Top EXCEPT !.stats = r.stats, !.pc = "send"])
         /\ trace' = trace \o r.ops
  /\ UNCHANGED <<fs, rootFolder, chanCap, wpc, err, returned, results, closeCount,
                 sent, received, consumer, ctxDone, observed>>

\* lines 37-40, loadDir failed: the frame is about to return the error
LoadDirFail ==
  /\ Walking /\ Top.pc = "load"
  /\ LET r == loadDir(Top.folder)
     IN  /\ r.err # Nil
         /\ stack' = SetTop([Top EXCEPT !.pc = "fail", !.ret = r.err])
         /\ trace' = trace \o r.ops
  /\ UNCHANGED <<fs, rootFolder, chanCap, wpc, err, returned, results, closeCount,
                 sent, received, consumer, ctxDone, observed>>

\* the loop of line 41 running over the children from the last to the first
DescendLastFirst ==
  /\ Walking /\ Top.pc = "loop"
  /\ stack' = Append(SetTop([Top EXCEPT !.i = @ + 1, !.pc = "call"]),
                     Frame(Top.children[Len(Top.children) + 1 - Top.i]))
  /\ UNCHANGED <<fs, rootFolder, chanCap, wpc, err, returned, results, closeCount,
                 sent, received, consumer, ctxDone, trace, observed>>

\* line 42: the recursive call on the next child
Descend ==
  /\ Walking /\ Top.pc = "loop"
  /\ stack' = Append(SetTop([Top EXCEPT !.i = @ + 1, !.pc = "call"]),
                     Frame(Top.children[Top.i]))
  /\ UNCHANGED <<fs, rootFolder, chanCap, wpc, err, returned, results, closeCount,
                 sent, received, consumer, ctxDone, trace, observed>>

\* the caller of walkFolder dropping the error of a child (no check at line 43)
ReturnToSwallow(e) ==
  IF Len(stack) = 1
  THEN /\ stack' = <<>>
       /\ err' = e
       /\ wpc' = "close"
  ELSE LET caller == stack[Len(stack) - 1]
       IN  /\ stack' = [Pop EXCEPT ![Len(stack) - 1] =
                          [caller EXCEPT !.pc = AfterLoop(caller.children, caller.i)]]
           /\ UNCHANGED <<err, wpc>>

\* the caller of walkFolder answering the error of a child by sending its own
\* record (line 44 without its return)
ReturnToSendAnyway(e) ==
  IF Len(stack) = 1
  THEN /\ stack' = <<>>
       /\ err' = e
       /\ wpc' = "close"
  ELSE LET caller == stack[Len(stack) - 1]
       IN  /\ stack' = [Pop EXCEPT ![Len(stack) - 1] =
                          IF e # Nil
                          THEN [caller EXCEPT !.pc = "send"]
                          ELSE [caller EXCEPT !.pc = AfterLoop(caller.children, caller.i)]]
           /\ UNCHANGED <<err, wpc>>

\* the stack and walkDirTree's state after the top frame returned e
ReturnTo(e) ==
  IF Len(stack) = 1
  THEN /\ stack' = <<>>
       /\ err' = e
       /\ wpc' = "close"
  ELSE LET caller == stack[Len(stack) - 1]
       IN  /\ stack' = [Pop EXCEPT ![Len(stack) - 1] =
                          IF e # Nil
                          THEN [caller EXCEPT !.pc = "fail", !.ret = e]
                          ELSE [caller EXCEPT !.pc = AfterLoop(caller.children, caller.i)]]
           /\ UNCHANGED <<err, wpc>>

\* lines 39 and 44: return err
ReturnErr ==
  /\ Walking /\ Top.pc = "fail"
  /\ ReturnTo(Top.ret)
  /\ UNCHANGED <<fs, rootFolder, chanCap, returned, results, closeCount,
                 sent, received, consumer, ctxDone, trace, observed>>

\* a send that does not wait for room in the buffer
SendBufferedNoBlock ==
  /\ Walking /\ Top.pc = "send"
  /\ ~results.closed
  /\ results' = [results EXCEPT !.buf = Append(@, Record(Top))]
  /\ sent' = Append(sent, Record(Top))
  /\ trace' = Append(trace, Op("send", Record(Top).Path))
  /\ ReturnTo(Nil)
  /\ UNCHANGED <<fs, rootFolder, chanCap, returned, closeCount, received,
                 consumer, ctxDone, observed>>

\* lines 48-54, the channel has room: results <- stats, return nil
SendBuffered ==
  /\ Walking /\ Top.pc = "send"
  /\ ~results.closed
  /\ Len(results.buf) < chanCap
  /\ results' = [results EXCEPT !.buf = Append(@, Record(Top))]
  /\ sent' = Append(sent, Record(Top))
  /\ trace' = Append(trace, Op("send", Record(Top).Path))
  /\ ReturnTo(Nil)
  /\ UNCHANGED <<fs, rootFolder, chanCap, returned, closeCount,
                 received, consumer, ctxDone, observed>>

\* lines 48-54, the consumer is waiting on the empty channel: the record is
\* handed to it directly
SendDirect ==
  /\ Walking /\ Top.pc = "send"
  /\ ~results.closed
  /\ results.buf = <<>> /\ consumer = "receiving"
  /\ sent' = Append(sent, Record(Top))
  /\ received' = Append(received, Record(Top))
  /\ observed' = Received(Record(Top))
  /\ trace' = Append(trace, Op("send", Record(Top).Path))
  /\ ReturnTo(Nil)
  /\ UNCHANGED <<fs, rootFolder, chanCap, returned, results, closeCount,
                 consumer, ctxDone>>

\* walkDirTree returning the error before it closes the channel
CloseOnSuccess ==
  /\ wpc = "close"
  /\ ~results.closed
  /\ IF err = Nil
     THEN /\ results' = [results EXCEPT !.closed = TRUE]
          /\ closeCount' = closeCount + 1
          /\ trace' = Append(trace, Op("close", <<>>))
     ELSE UNCHANGED <<results, closeCount, trace>>
  /\ wpc' = "return"
  /\ UNCHANGED <<fs, rootFolder, chanCap, stack, err, returned, sent, received,
                 consumer, ctxDone, observed>>

\* line 32: close(results)
Close ==
  /\ wpc = "close"
  /\ ~results.closed
  /\ results' = [results EXCEPT !.closed = TRUE]
  /\ closeCount' = closeCount + 1
  /\ wpc' = "return"
  /\ trace' = Append(trace, Op("close", <<>>))
  /\ UNCHANGED <<fs, rootFolder, chanCap, stack, err, returned, sent, received,
                 consumer, ctxDone, observed>>

\* line 33: return err
Return ==
  /\ wpc = "return"
  /\ returned' = err
  /\ wpc' = "done"
  /\ UNCHANGED <<fs, rootFolder, chanCap, stack, err, results, closeCount, sent,
                 received, consumer, ctxDone, trace, observed>>

\* the consumer takes the oldest buffered record
Recv ==
  /\ consumer = "receiving"
  /\ results.buf # <<>>
  /\ received' = Append(received, Head(results.buf))
  /\ observed' = Received(Head(results.buf))
  /\ results' = [results EXCEPT !.buf = Tail(@)]
  /\ UNCHANGED <<fs, rootFolder, chanCap, stack, wpc, err, returned, closeCount,
                 sent, consumer, ctxDone, trace>>

\* the consumer finds the channel closed and drained
RecvClosed ==
  /\ consumer = "receiving"
  /\ results.buf = <<>> /\ results.closed
  /\ consumer' = "done"
  /\ observed' = Closed
  /\ UNCHANGED <<fs, rootFolder, chanCap, stack, wpc, err, returned, results,
                 closeCount, sent, received, ctxDone, trace>>

\* the caller cancels ctx
Cancel ==
  /\ ~ctxDone
  /\ wpc # "done"
  /\ ctxDone' = TRUE
  /\ UNCHANGED <<fs, rootFolder, chanCap, stack, wpc, err, returned, results,
                 closeCount, sent, received, consumer, trace, observed>>

\* the consumer gives up receiving before the channel is closed
ConsumerStop ==
  /\ consumer = "receiving"
  /\ ~results.closed
  /\ consumer' = "stopped"
  /\ UNCHANGED <<fs, rootFolder, chanCap, stack, wpc, err, returned, results,
                 closeCount, sent, received, ctxDone, trace, observed>>

Next ==
  \/ LoadDirOk
  \/ LoadDirFail
  \/ Descend
  \/ ReturnErr
  \/ SendBuffered
  \/ SendDirect
  \/ Close
  \/ Return
  \/ Recv
  \/ RecvClosed
  \/ Cancel

\* --------------------------------------------------------- initial states
File(name, t) == [name |-> name, isDir |-> FALSE, link |-> "none", node |-> 0, mtime |-> t]

Dir(name, n, t) == [name |-> name, isDir |-> TRUE, link |-> "none", node |-> n, mtime |-> t]

Link(name, to, n, t) == [name |-> name, isDir |-> FALSE, link |-> to, node |-> n, mtime |-> t]

DirNode(t, kind, entries) ==
  [mtime |-> t, statErr |-> kind = "statfail", listErr |-> kind = "listfail",
   readable |-> kind # "unreadable", entries |-> entries]

Song == File(<<"s", Dot, "mp3">>, MaxTime)

Marker == File(SkipScanFile, 1)

\* the state of walkDirTree(ctx, root, results) at its first line, on file
\* system f with a channel of capacity cap
Start(f, root, cap) ==
  /\ fs = f
  /\ rootFolder = root
  /\ chanCap = cap
  /\ stack = <<Frame(root)>>
  /\ wpc = "walk"
  /\ err = Nil
  /\ returned = Nil
  /\ results = [buf |-> <<>>, closed |-> FALSE]
  /\ closeCount = 0
  /\ sent = <<>>
  /\ received = <<>>
  /\ consumer = "receiving"
  /\ observed = Closed
  /\ ctxDone = FALSE
  /\ trace = <<>>

DirKinds == {"plain", "hidden", "marked", "unreadable", "statfail", "listfail"}

\* the kinds of directory the walker does not look into
Opaque == DirKinds \ {"plain"}

TreeDirName(c, kind) ==
  IF kind = "hidden" THEN <<Dot, ToString(c)>> ELSE <<ToString(c)>>

\* a tree of MaxDirs directories: parent[c] is the directory that holds c,
\* kind[c] says how c looks to the walker; every directory holds one song
TreeFS(parent, kind) ==
  [d \in 1..MaxDirs |->
     LET kids == SelectSeq([c \in 1..MaxDirs |-> c],
                           LAMBDA c : c > 1 /\ parent[c] = d)
         subs == [j \in 1..Len(kids) |->
                    Dir(TreeDirName(kids[j], kind[kids[j]]), kids[j], 1)]
     IN  DirNode(1, kind[d],
                 (IF kind[d] = "marked" THEN <<Marker>> ELSE <<>>) \o <<Song>> \o subs)]

TreeRoot(kind) == IF kind = "hidden" THEN <<<<Dot, "music">>>> ELSE <<<<"music">>>>

TreeInit ==
  \E parent \in [2..MaxDirs -> 1..MaxDirs], kind \in [1..MaxDirs -> DirKinds],
     cap \in 0..MaxCap :
    /\ \A c \in 2..MaxDirs : parent[c] < c
    /\ \A c \in 2..MaxDirs : kind[parent[c]] \in Opaque /\ parent[c] # 1 => kind[c] = "plain"
    /\ Start(TreeFS(parent, kind), TreeRoot(kind[1]), cap)

Spec == TreeInit /\ [][Next]_vars

\* the steps of the goroutine that runs walkDirTree
Walker ==
  \/ LoadDirOk
  \/ LoadDirFail
  \/ Descend
  \/ ReturnErr
  \/ SendBuffered
  \/ SendDirect
  \/ Close
  \/ Return

\* the walk with a consumer that may stop receiving
NextStop ==
  \/ Next
  \/ ConsumerStop

\* walkFolder is at its send and the channel takes no record: the buffer is
\* full and no receiver is waiting on an empty channel
Blocked ==
  /\ Walking /\ Top.pc = "send"
  /\ Len(results.buf) >= chanCap
  /\ ~(results.buf = <<>> /\ consumer = "receiving")

\* the walker's goroutine has a statement to run: ENABLED <<Walker>>_vars
WalkerCanStep == wpc \in {"close", "return"} \/ (Walking /\ ~Blocked)

\* a step of the walker's goroutine: <<Walker>>_vars on the steps of NextStop
WalkerMoved == stack' # stack \/ wpc' # wpc

\* that WalkerCanStep and WalkerMoved are what their comments say; both hold
\* of the walk with a consumer that may stop
WalkerCanStepIsEnabled == WalkerCanStep <=> ENABLED <<Walker>>_vars

WalkerMovedIsWalker == [][WalkerMoved <=> Walker]_vars

\* WF_vars(Walker) with ENABLED <<Walker>>_vars and <<Walker>>_vars written
\* out, which spares the evaluation of loadDir inside ENABLED
WalkerFair == []<>~WalkerCanStep \/ []<><<WalkerMoved>>_vars

\* the walker's goroutine runs whenever it can, and a consumer that is still
\* receiving takes what the channel offers
SpecStop ==
  /\ TreeInit
  /\ [][NextStop]_vars
  /\ WalkerFair
  /\ WF_vars(Recv)
  /\ WF_vars(RecvClosed)

\* the files of every subdirectory of a flat file system: newer than anything
\* in the root
SubFiles ==
  <<File(<<"s", Dot, "mp3">>, MaxTime + 1), File(<<"cover", Dot, "jpg">>, 1),
    File(<<"list", Dot, "m3u">>, 1)>>

\* what the root listing of a flat file system is drawn from: the kind of an
\* entry and its modification time
FlatChoices ==
  [kind : {"audio", "dir", "hiddenAudioDir"}, t : 1..MaxTime]
  \cup [kind : {"playlist", "image", "text", "unreadableDir", "dirLink", "fileLink",
                "listfailDir"}, t : {1}]
  \cup [kind : {"markedDir", "brokenLink", "audioDir"}, t : {MaxTime}]

\* the i-th entry of the root listing; a directory entry leads to node i + 1
FlatEntry(i, c) ==
  LET n == ToString(i)
  IN  CASE c.kind = "audio"          -> File(<<n, Dot, "mp3">>, c.t)
        [] c.kind = "playlist"       -> File(<<n, Dot, "m3u">>, c.t)
        [] c.kind = "image"          -> File(<<n, Dot, "jpg">>, c.t)
        [] c.kind = "text"           -> File(<<n, Dot, "txt">>, c.t)
        [] c.kind = "dir"            -> Dir(<<n>>, i + 1, c.t)
        [] c.kind = "audioDir"       -> Dir(<<n, Dot, "mp3">>, i + 1, c.t)
        [] c.kind = "hiddenAudioDir" -> Dir(<<Dot, n, Dot, "mp3">>, i + 1, c.t)
        [] c.kind = "markedDir"      -> Dir(<<n>>, i + 1, c.t)
        [] c.kind = "unreadableDir"  -> Dir(<<n, Dot, "jpg">>, i + 1, c.t)
        [] c.kind = "listfailDir"    -> Dir(<<n>>, i + 1, c.t)
        [] c.kind = "brokenLink"     -> Link(<<n, Dot, "mp3">>, "broken", 0, c.t)
        [] c.kind = "dirLink"        -> Link(<<n>>, "dir", i + 1, c.t)
        [] c.kind = "fileLink"       -> Link(<<n, Dot, "mp3">>, "file", 0, c.t)

\* the directory node behind the entry drawn as c
FlatSub(c) ==
  CASE c.kind = "markedDir"     -> DirNode(c.t, "marked", <<Marker>> \o SubFiles)
    [] c.kind = "unreadableDir" -> DirNode(c.t, "unreadable", SubFiles)
    [] c.kind = "listfailDir"   -> DirNode(c.t, "listfail", SubFiles)
    [] OTHER                    -> DirNode(c.t, "plain", SubFiles)

\* a root directory of modification time t0 with the listing es
FlatFS(t0, es) ==
  [d \in 1..(MaxEntries + 1) |->
     IF d = 1 THEN DirNode(t0, "plain", [i \in 1..Len(es) |-> FlatEntry(i, es[i])])
     ELSE IF d - 1 <= Len(es) THEN FlatSub(es[d - 1])
     ELSE DirNode(1, "plain", <<>>)]

\* the root folder is given with a trailing separator
FlatRoot == <<<<"music">>, <<>>>>

FlatInit ==
  \E n \in 0..MaxEntries, t0 \in 1..MaxTime :
    \E es \in [1..n -> FlatChoices] :
      Start(FlatFS(t0, es), FlatRoot, MaxCap)

SpecFlat == FlatInit /\ [][Next]_vars

\* ================================================================== claims
Last(q) == q[Len(q)]

Done == wpc = "done"

\* the positions of the trace with an event of kind o
At(o) == {k \in 1..Len(trace) : trace[k].op = o}

\* the stat and list calls of loadDir that failed, by position in the trace
FailAt ==
  {k \in 1..Len(trace) :
     \/ trace[k].op = "stat" /\ ~Stat(trace[k].path).ok
     \/ trace[k].op = "readdir" /\ ~ReadDir(trace[k].path).ok}

\* the error value of the failed call at position k
ErrorOf(k) == [kind |-> trace[k].op, path |-> trace[k].path]

\* the directories the walk of folder includes beneath it
IncludedChildren(folder) == loadDir(folder).children

\* C1: a descendant's record is sent before the record of each of its
\* ancestors: sent records are in that order, a record is sent only when the
\* records of all included children of its directory have been sent, and once
\* a walk without error has closed the stream the root's record is the last.
C1_Ordering ==
  /\ \A i, j \in 1..Len(sent) :
       IsProperAncestor(sent[j].Path, sent[i].Path) => i < j
  /\ \A j \in 1..Len(sent) :
       LET kids == IncludedChildren(sent[j].Path)
       IN  \A c \in 1..Len(kids) : \E i \in 1..(j - 1) : sent[i].Path = kids[c]
  /\ results.closed /\ err = Nil =>
       /\ sent # <<>>
       /\ Last(sent).Path = Clean(rootFolder)
       /\ Last(trace).op = "close" /\ trace[Len(trace) - 1].op = "send"

\* a successful walk sent a directory, its parent and the root, in that order
C1_Witness ==
  /\ Done /\ returned = Nil
  /\ \E i, j, k \in 1..Len(sent) :
       /\ i < j /\ j < k
       /\ IsProperAncestor(sent[j].Path, sent[i].Path)
       /\ IsProperAncestor(sent[k].Path, sent[j].Path)
       /\ k = Len(sent)

\* the terminal state of the walk
Outcome ==
  IF ~Done THEN "in-progress"
  ELSE IF returned = Nil THEN "completed-ok"
  ELSE IF returned.kind = "canceled" THEN "completed-cancelled"
  ELSE "completed-error"

\* C2: the stream is closed exactly once on every path, after the last record:
\* close runs at most once, nothing is sent after it, walkDirTree does not
\* return before it, and a finished walk stays in its one terminal state.
C2_ClosedOnce ==
  [][/\ closeCount' <= 1
     /\ Cardinality(At("close")') = closeCount'
     /\ results'.closed <=> closeCount' = 1
     /\ results.closed => sent' = sent /\ results'.closed /\ stack' = <<>>
     /\ \A k \in At("close")' : \A j \in At("send")' : j < k
     /\ Done' => results'.closed /\ closeCount' = 1
     /\ Outcome # "in-progress" => Outcome' = Outcome]_vars

\* a cancelled walk that failed after sending a record has returned, with the
\* stream closed once
C2_Witness ==
  /\ Outcome = "completed-error" /\ ctxDone
  /\ sent # <<>>
  /\ closeCount = 1 /\ results.closed

\* C3: a failed stat or listing of a directory aborts the walk: it is the
\* last file-system call, no record is sent after it, none was sent for the
\* failing directory or an ancestor, and walkDirTree closes the stream and
\* returns that error; it returns nil only when no such call failed.
C3_FatalAbort ==
  /\ \A k \in FailAt :
       /\ \A j \in (k + 1)..Len(trace) : trace[j].op = "close"
       /\ \A r \in 1..Len(sent) :
            /\ sent[r].Path # Clean(trace[k].path)
            /\ ~IsProperAncestor(sent[r].Path, Clean(trace[k].path))
       /\ wpc \in {"close", "return", "done"} => err = ErrorOf(k)
       /\ Done => returned = ErrorOf(k) /\ results.closed
  /\ Done /\ returned = Nil => FailAt = {}
  /\ Done /\ FailAt = {} => returned = Nil

\* the listing of a directory below the root failed after a sibling's record
\* was sent, and the walk has returned
C3_Witness ==
  /\ Done
  /\ sent # <<>>
  /\ \E k \in FailAt : trace[k].op = "readdir" /\ Len(Clean(trace[k].path)) > 1

\* C4: once ctx is cancelled the walker descends into no further
\* subdirectory: it makes no new call of walkFolder and lists no directory
\* below the root; the stream is closed at most once.
C4_Cancellation ==
  [][/\ ctxDone => Len(stack') <= Len(stack)
     /\ ctxDone => \A k \in At("readdir")' : k > Len(trace) => Len(Clean(trace'[k].path)) = 1
     /\ closeCount' <= 1]_vars

\* a call of loadDir on the root folder failed
RootFailed == \E k \in FailAt : Clean(trace[k].path) = Clean(rootFolder)

\* C5: when the stat or the listing of the root folder fails, no record is
\* ever sent, and walkDirTree returns an error with the stream closed once.
C5_RootFailure ==
  RootFailed =>
    /\ sent = <<>> /\ At("send") = {}
    /\ closeCount <= 1
    /\ Done => returned # Nil /\ results.closed /\ closeCount = 1

\* the walk of a root folder that cannot be listed has returned
C5_Witness ==
  /\ Done /\ RootFailed
  /\ \E k \in FailAt : trace[k].op = "readdir"
  /\ consumer = "done"

\* the entries of directory node n, as a set
Entries(n) == {fs[n].entries[i] : i \in 1..Len(fs[n].entries)}

\* the number of directories of the tree below and including node n
RECURSIVE CountDirs(_)
CountDirs(n) ==
  LET RECURSIVE Sum(_)
      Sum(k) == IF k = 0 THEN 0
                ELSE Sum(k - 1) + (IF fs[n].entries[k].isDir
                                   THEN CountDirs(fs[n].entries[k].node) ELSE 0)
  IN  1 + Sum(Len(fs[n].entries))

\* the directory nodes of the tree below and including node n
RECURSIVE TreeNodes(_)
TreeNodes(n) == {n} \cup UNION {TreeNodes(e.node) : e \in {x \in Entries(n) : x.isDir}}

\* no directory of the tree is hidden, ignore-marked or unreadable, none fails
\* to be statted or listed, and there are no symbolic links
PlainTree ==
  /\ ~HasDotPrefix(Clean(rootFolder)[1])
  /\ \A n \in TreeNodes(1) :
       /\ ~fs[n].statErr /\ ~fs[n].listErr /\ fs[n].readable
       /\ \A e \in Entries(n) :
            /\ e.name # SkipScanFile
            /\ e.link = "none"
            /\ e.isDir => ~HasDotPrefix(e.name)

\* C6: on a tree without hidden, ignore-marked or unreadable directories and
\* without I/O errors, the finished walk has sent exactly one record per
\* directory of the tree.
C6_Completeness ==
  PlainTree /\ Done =>
    /\ returned = Nil
    /\ Len(sent) = CountDirs(1)
    /\ Cardinality({sent[i].Path : i \in 1..Len(sent)}) = Len(sent)

\* the walk of a plain tree of at least three directories has returned
C6_Witness ==
  /\ PlainTree /\ Done
  /\ CountDirs(1) >= 3
  /\ Len(sent) >= 3

\* the directory node a path leads to (0 when it leads to none)
NodeOf(path) == Resolve(path).node

\* the directory at path holds the ignore-marker file as a direct child
HasMarker(path) ==
  /\ Resolve(path).kind = "dir"
  /\ \E e \in Entries(NodeOf(path)) : e.name = SkipScanFile

\* path names a child directory that is hidden or ignore-marked
HiddenOrMarked(path) == Len(path) >= 2 /\ (HasDotPrefix(Last(path)) \/ HasMarker(path))

\* path is, or lies beneath, a hidden or ignore-marked child directory
Excluded(path) == \E j \in 2..Len(path) : HiddenOrMarked(SubSeq(path, 1, j))

\* C7: the walker neither stats nor lists nor opens a hidden or ignore-marked
\* child directory or anything beneath it, and sends no record for any of
\* them.
C7_Exclusion ==
  \A k \in 1..Len(trace) :
    trace[k].op \in {"stat", "readdir", "open", "send"} => ~Excluded(Clean(trace[k].path))

\* a successful walk passed over a hidden or ignore-marked child of the root
\* that holds a directory of its own
C7_Witness ==
  /\ Done /\ returned = Nil
  /\ \E e \in Entries(1) :
       /\ e.isDir
       /\ HasDotPrefix(e.name) \/ SkipScanFile \in {x.name : x \in Entries(e.node)}
       /\ \E x \in Entries(e.node) : x.isDir

\* every path of the file system that leads to a directory, from path at node n
RECURSIVE DirPathsFrom(_, _)
DirPathsFrom(path, n) ==
  {path} \cup UNION {DirPathsFrom(Append(path, e.name), e.node) :
                       e \in {x \in Entries(n) : x.isDir \/ x.link = "dir"}}

AllDirPaths == DirPathsFrom(Clean(rootFolder), 1)

\* the inclusion policy on the child directory at path
PassesPolicy(path) ==
  /\ ~HasDotPrefix(Last(path))
  /\ ~HasMarker(path)
  /\ fs[NodeOf(path)].readable

\* the directories the policy includes: the root, and every directory whose
\* path below the root passes the policy at each step
IncludedPaths ==
  {p \in AllDirPaths : \A j \in 2..Len(p) : PassesPolicy(SubSeq(p, 1, j))}

SentPaths == {sent[i].Path : i \in 1..Len(sent)}

\* C8: only directories the policy includes get a record, and a walk that
\* returns nil has sent a record for every one of them; the root is included
\* whatever its name and content.
C8_RecordIffIncluded ==
  /\ SentPaths \subseteq IncludedPaths
  /\ Clean(rootFolder) \in IncludedPaths
  /\ Done /\ returned = Nil => SentPaths = IncludedPaths

\* a successful walk of a hidden root folder included one child directory and
\* excluded another
C8_Witness ==
  /\ Done /\ returned = Nil
  /\ HasDotPrefix(Clean(rootFolder)[1])
  /\ Clean(rootFolder) \in SentPaths
  /\ Len(sent) >= 2
  /\ AllDirPaths # IncludedPaths

\* the root folder holds the ignore-marker file and its record was sent
C8_MarkedRootSent ==
  /\ Done /\ HasMarker(Clean(rootFolder))
  /\ Clean(rootFolder) \in SentPaths

\* the direct entries of node n that are files: regular files and symbolic
\* links that resolve to a file
DirectFiles(n) == {e \in Entries(n) : ~e.isDir /\ e.link \in {"none", "file"}}

SetMax(S) == CHOOSE x \in S : \A y \in S : y <= x

\* C9: in every record sent, AudioFilesCount is the number of direct file
\* entries of the directory whose name passes the audio classifier.
C9_AudioCount ==
  \A r \in 1..Len(sent) :
    sent[r].AudioFilesCount =
      Cardinality({e \in DirectFiles(NodeOf(sent[r].Path)) : IsAudioFile(e.name)})

\* C10: in every record sent, ModTime is the maximum of the directory's own
\* modification time and those of its direct file entries.
C10_ModTime ==
  \A r \in 1..Len(sent) :
    LET n == NodeOf(sent[r].Path)
    IN  sent[r].ModTime = SetMax({fs[n].mtime} \cup {e.mtime : e \in DirectFiles(n)})

\* C11: the ModTime of every record sent is at least the directory's own
\* modification time and at least the modification time of every direct file
\* entry of the directory.
C11_MtimeMonotone ==
  \A r \in 1..Len(sent) :
    LET n == NodeOf(sent[r].Path)
    IN  /\ sent[r].ModTime >= fs[n].mtime
        /\ \A e \in DirectFiles(n) : sent[r].ModTime >= e.mtime

\* a record was sent whose ModTime was raised above the directory's own by a
\* file listed before older files
C11_Witness ==
  \E r \in 1..Len(sent) :
    LET n == NodeOf(sent[r].Path)
        es == fs[n].entries
    IN  /\ sent[r].ModTime > fs[n].mtime
        /\ \E i, j \in 1..Len(es) :
             /\ i < j
             /\ es[i] \in DirectFiles(n) /\ es[j] \in DirectFiles(n)
             /\ es[i].mtime = sent[r].ModTime /\ es[j].mtime < es[i].mtime

\* the listing of node n without the symbolic links that do not resolve
WithoutBroken(n) == SelectSeq(fs[n].entries, LAMBDA e : e.link # "broken")

\* what loadDir computes for the directory at path p from the listing files
LoadedFrom(p, files) ==
  LoadEntries(p, files, 1,
    [children |-> <<>>, stats |-> [ZeroStats EXCEPT !.ModTime = fs[NodeOf(p)].mtime],
     err |-> Nil, ops |-> <<>>])

\* the directory that lists the entry at path p
ParentPath(p) == SubSeq(p, 1, Len(p) - 1)

\* C12: a symbolic link that does not resolve is skipped and nothing else:
\* every record sent is the one the directory would get if its listing did not
\* hold the broken links at all (same counts, flags and ModTime, computed from
\* the remaining entries), the directory that lists a broken link gets its
\* record when the walk ends without error, and an error the walk returns is
\* that of a directory, never that of the link.
C12_BrokenLink ==
  /\ \A r \in 1..Len(sent) :
       LET p == sent[r].Path
       IN  sent[r] = [LoadedFrom(p, WithoutBroken(NodeOf(p))).stats EXCEPT !.Path = p]
  /\ \A k \in At("statLink") :
       Resolve(trace[k].path).kind = "none" /\ Done /\ returned = Nil
         => ParentPath(trace[k].path) \in SentPaths
  /\ Done /\ returned # Nil => Resolve(returned.path).kind = "dir"

\* the root lists a broken link named like an audio file, newer than anything
\* else, before an audio file; the walk ended without error and the root's
\* record counts one audio file
C12_Witness ==
  /\ Done /\ returned = Nil
  /\ Len(fs[1].entries) >= 2
  /\ fs[1].entries[1].link = "broken" /\ IsAudioFile(fs[1].entries[1].name)
  /\ fs[1].entries[1].mtime > fs[1].mtime
  /\ fs[1].entries[2] \in DirectFiles(1) /\ IsAudioFile(fs[1].entries[2].name)
  /\ \E k \in At("statLink") : Resolve(trace[k].path).kind = "none"
  /\ sent # <<>> /\ Last(sent).Path = Clean(rootFolder)
  /\ Last(sent).AudioFilesCount = 1
  /\ Last(sent).ModTime < fs[1].entries[1].mtime

\* C13: what the consumer observes on the stream at termination tells a walk
\* that failed from one that completed: the receive that ends a completed
\* walk gives the observation Closed, the receive that ends a failed walk
\* gives a different one.
C13_TerminalSignal ==
  consumer = "done" /\ Done =>
    /\ returned = Nil => observed = Closed
    /\ returned # Nil => observed # Closed

\* C14: the records sent and not yet received are those in the channel's
\* buffer and never more than its capacity, and a step taken while the walker
\* is blocked at its send leaves the walker where it is: no file-system call,
\* no send, no frame pushed or popped.
C14_Backpressure ==
  [][/\ sent' = received' \o results'.buf
     /\ Len(sent') - Len(received') <= chanCap
     /\ Blocked => trace' = trace /\ stack' = stack /\ sent' = sent /\ wpc' = wpc]_vars

\* the walker is blocked at a send with a full buffer of at least one record
\* while directories are still to be walked
C14_Witness ==
  /\ Blocked /\ chanCap >= 1
  /\ Len(sent) - Len(received) = chanCap
  /\ Len(stack) >= 2

\* path q is p or lies beneath p
AtOrBelow(q, p) == Len(p) <= Len(q) /\ SubSeq(q, 1, Len(p)) = p

\* the child directories the walker cannot open
Unreadable == {p \in AllDirPaths : Len(p) >= 2 /\ ~fs[NodeOf(p)].readable}

\* C15: a child directory that is not readable is passed over and nothing
\* more: the walker neither stats nor lists it or anything beneath it and sends
\* no record for any of them; an error the walk returns is never that of the
\* unreadable directory; and when the walk ends without error, the parent that
\* was found to list it and all of the parent's included children have their
\* records.
C15_Unreadable ==
  \A p \in Unreadable :
    /\ \A k \in 1..Len(trace) :
         trace[k].op \in {"stat", "readdir", "send"} => ~AtOrBelow(Clean(trace[k].path), p)
    /\ returned # Nil => ~AtOrBelow(Clean(returned.path), p)
    /\ (Done /\ returned = Nil /\ \E k \in At("open") : trace[k].path = p)
         => /\ ParentPath(p) \in SentPaths
            /\ \A j \in 1..Len(IncludedChildren(ParentPath(p))) :
                 IncludedChildren(ParentPath(p))[j] \in SentPaths

\* a walk without error found a child of the root unreadable and went on to
\* walk a sibling listed after it
C15_Witness ==
  /\ Done /\ returned = Nil
  /\ \E i, j \in 1..Len(fs[1].entries) :
       LET p == Join(rootFolder, fs[1].entries[i].name)
           q == Join(rootFolder, fs[1].entries[j].name)
       IN  /\ i < j
           /\ p \in Unreadable
           /\ \E k \in At("open") : trace[k].path = p
           /\ q \in SentPaths
  /\ Clean(rootFolder) \in SentPaths

\* C16: the policy is evaluated in the order hidden prefix, ignore marker,
\* readability: the marker file is never looked up inside a directory whose
\* name has the hidden prefix, a directory is opened for the readability check
\* only if it is neither hidden nor ignore-marked, and the check follows
\* directly on the marker lookup of the same directory.
C16_PolicyOrder ==
  /\ \A k \in At("statMarker") : ~HasDotPrefix(Last(ParentPath(trace[k].path)))
  /\ \A k \in At("open") :
       /\ ~HasDotPrefix(Last(trace[k].path))
       /\ ~HasMarker(trace[k].path)
       /\ k > 1 /\ trace[k - 1] = Op("statMarker", Join(trace[k].path, SkipScanFile))

\* a directory was listed that holds a hidden child, which caused no call at
\* all, and an ignore-marked child, whose marker was looked up and which was
\* not opened
C16_Witness ==
  \E i, j \in 1..Len(fs[1].entries) :
    LET h == fs[1].entries[i]
        m == fs[1].entries[j]
    IN  /\ h.isDir /\ HasDotPrefix(h.name)
        /\ m.isDir /\ ~HasDotPrefix(m.name) /\ HasMarker(Join(rootFolder, m.name))
        /\ \E k \in At("statMarker") :
             trace[k].path = Join(Join(rootFolder, m.name), SkipScanFile)
        /\ \A k \in 1..Len(trace) :
             ~AtOrBelow(Clean(trace[k].path), Join(rootFolder, h.name))
        /\ Done

\* the positions of the trace where the walker stats, lists or sends the
\* directory p or one beneath it
Touching(p) ==
  {k \in 1..Len(trace) : /\ trace[k].op \in {"stat", "readdir", "send"}
                         /\ AtOrBelow(Clean(trace[k].path), p)}

\* C17: the walk is sequential and depth-first in listing order. No directory
\* is statted twice or listed twice; a listing directly follows the stat of
\* the same directory, and the calls on a directory's entries follow its
\* listing before any other directory is touched; when the walk has ended
\* without error every included directory was statted and listed. When a
\* directory Y is statted, every included sibling X listed before it has its
\* record sent, and nothing at or beneath X is touched from then on.
C17_SequentialDFS ==
  /\ \A k, j \in At("stat") : Clean(trace[k].path) = Clean(trace[j].path) => k = j
  /\ \A k, j \in At("readdir") : Clean(trace[k].path) = Clean(trace[j].path) => k = j
  /\ \A k \in At("readdir") : k > 1 /\ trace[k - 1] = Op("stat", trace[k].path)
  /\ \A k \in At("statLink") \cup At("statMarker") \cup At("open") :
       k > 1 /\ trace[k - 1].op \in {"readdir", "statLink", "statMarker", "open"}
  /\ Done /\ returned = Nil =>
       \A p \in IncludedPaths :
         /\ \E k \in At("stat") : Clean(trace[k].path) = p
         /\ \E k \in At("readdir") : Clean(trace[k].path) = p
  /\ \A k \in At("stat") :
       LET y == Clean(trace[k].path)
           kids == IF Len(y) >= 2 THEN IncludedChildren(ParentPath(y)) ELSE <<>>
       IN  \A a, b \in 1..Len(kids) :
             a < b /\ kids[b] = y =>
               /\ \E j \in At("send") : j < k /\ trace[j].path = kids[a]
               /\ \A j \in Touching(kids[a]) : j < k
               /\ \A j \in Touching(y) : j >= k

\* a walk without error of a root with two included children: the first
\* child's record was sent before the second was statted
C17_Witness ==
  /\ Done /\ returned = Nil
  /\ LET kids == IncludedChildren(Clean(rootFolder))
     IN  /\ Len(kids) >= 2
         /\ \E j \in At("send"), k \in At("stat") :
              /\ j < k
              /\ trace[j].path = kids[1]
              /\ trace[k].path = kids[2]
              /\ \E l \in At("send") : l > k /\ trace[l].path = kids[2]

\* C18: in every record sent, HasPlaylist (HasImages) is true exactly when
\* some direct file entry of the directory whose name does not pass the audio
\* classifier passes the playlist (image) classifier.
C18_LeafClassification ==
  \A r \in 1..Len(sent) :
    LET leaves == {e \in DirectFiles(NodeOf(sent[r].Path)) : ~IsAudioFile(e.name)}
    IN  /\ sent[r].HasPlaylist <=> \E e \in leaves : IsPlaylist(e.name)
        /\ sent[r].HasImages <=> \E e \in leaves : IsImageFile(e.name)

\* walkDirTree has closed the stream and returned
Terminated == Done /\ results.closed

\* the walker is blocked at a send and the consumer has stopped receiving
Stuck == Blocked /\ consumer = "stopped"

\* C19 as stated: with a consumer that keeps receiving the walk terminates,
\* and once the consumer has stopped with a record sent and not received the
\* stream is never closed.
C19_Original ==
  /\ <>(consumer = "stopped") \/ <>Terminated
  /\ [](consumer = "stopped" /\ sent # received => ~results.closed)

\* C19, amended: every walk either terminates (stream closed, walkDirTree
\* returned) or gets stuck at a send; it terminates whenever the consumer keeps
\* receiving; a walker stuck at a send stays stuck there with the stream open,
\* which takes a consumer that stopped and a buffer that is full.
C19_Termination ==
  /\ <>(Terminated \/ Stuck)
  /\ <>(consumer = "stopped") \/ <>Terminated
  /\ [][Stuck => Stuck' /\ ~results'.closed /\ stack' = stack /\ sent' = sent]_vars
  /\ [](Stuck => ~results.closed /\ Len(results.buf) = chanCap)

\* the consumer stopped with a record left in the buffer, and the walk went on
\* to close the stream and return
C19_Witness ==
  /\ Terminated
  /\ consumer = "stopped"
  /\ results.buf # <<>>
  /\ Len(sent) > Len(received)

\* the walker is stuck at a send below the root
C19_StuckWitness == Stuck /\ Len(stack) >= 2

\* the records walkFolder(p) sends, in order, and whether it returns without
\* error, computed by recursion on the tree as lines 36-55 read; the stat and
\* the listing of the directory f are taken to succeed
RECURSIVE WalkOf(_, _)
RECURSIVE WalkOfChildren(_, _, _, _)
WalkOf(p, f) ==
  LET r == IF Clean(p) = Clean(f) THEN LoadedFrom(p, fs[NodeOf(p)].entries)
           ELSE loadDir(p)
  IN  IF r.err # Nil THEN [seq |-> <<>>, ok |-> FALSE]
      ELSE LET below == WalkOfChildren(r.children, 1, f, [seq |-> <<>>, ok |-> TRUE])
           IN  IF ~below.ok THEN below
               ELSE [seq |-> Append(below.seq, [r.stats EXCEPT !.Path = Clean(p)]),
                     ok |-> TRUE]

WalkOfChildren(children, i, f, acc) ==
  IF i > Len(children) \/ ~acc.ok THEN acc
  ELSE LET w == WalkOf(children[i], f)
       IN  WalkOfChildren(children, i + 1, f, [seq |-> acc.seq \o w.seq, ok |-> w.ok])

\* C20: when the walk has returned the error of directory F, the records sent
\* are a prefix of the records of the same walk with F's stat and listing
\* succeeding, record for record; none of them is of F or of a directory
\* beneath it, and the first record left out, if there is one, is the first of
\* F's subtree. A walk that returned without error sent exactly the records of
\* the recursion.
C20_ValidPrefix ==
  /\ Done /\ returned # Nil =>
       LET F == Clean(returned.path)
           ref == WalkOf(rootFolder, F).seq
       IN  /\ Len(sent) <= Len(ref)
           /\ SubSeq(ref, 1, Len(sent)) = sent
           /\ \A i \in 1..Len(sent) : ~AtOrBelow(sent[i].Path, F)
           /\ Len(ref) > Len(sent) => AtOrBelow(ref[Len(sent) + 1].Path, F)
  /\ Done /\ returned = Nil =>
       LET w == WalkOf(rootFolder, <<>>)
       IN  w.ok /\ sent = w.seq

\* a walk was aborted by a directory after a sibling's record was sent; with
\* the directory repaired the walk would send its record and the root's as well
C20_Witness ==
  /\ Done /\ returned # Nil
  /\ Len(returned.path) >= 2
  /\ sent # <<>>
  /\ LET ref == WalkOf(rootFolder, Clean(returned.path))
     IN  /\ ref.ok
         /\ Len(ref.seq) >= Len(sent) + 2
         /\ ref.seq[Len(sent) + 1].Path = Clean(returned.path)
         /\ Last(ref.seq).Path = Clean(rootFolder)

====
